---- MODULE Spec2Model ----
(***************************************************************************)
(* Model of server.js: the Express application that turns Markdown into a   *)
(* Google Slides presentation.                                             *)
(*                                                                         *)
(* JavaScript strings are sequences of one-character strings, so that      *)
(* split, trim, includes and the template literals are computed character  *)
(* by character.  An absent object property (undefined) is a field that is *)
(* not in the DOMAIN of the record.                                        *)
(***************************************************************************)
EXTENDS Integers, Sequences, FiniteSets, TLC

VARIABLES
    credentials,     \* oauth2Client.credentials, the process-wide slot
    created,         \* number of presentations the Slides service has created
    pc,              \* where each POST /convert request stands
    body,            \* req.body of each POST /convert request
    slidesContent,   \* const slidesContent of each POST /convert request
    presentationId,  \* const presentationId of each POST /convert request
    requests,        \* const requests of each POST /convert request
    slideCount,      \* let slideCount of each POST /convert request
    calls,           \* the Slides API calls each POST /convert request has issued
    responses,       \* the HTTP responses written to each POST /convert request
    cbPc,            \* where each GET /auth/google/callback request stands
    cbCode,          \* req.query.code of each callback request
    cbResponses      \* the HTTP responses written to each callback request

vars == <<credentials, created, pc, body, slidesContent, presentationId, requests,
          slideCount, calls, responses, cbPc, cbCode, cbResponses>>
convVars == <<pc, body, slidesContent, presentationId, requests, slideCount,
              calls, responses>>
cbVars == <<cbPc, cbCode, cbResponses>>

(* ------------------------------ bounds --------------------------------- *)

\* longest document, in blocks, that the builder specification feeds in
MaxBlocks == 3
\* longest document, in characters, that the segmenter specification feeds in
MaxDocLen == 6
\* largest value Date.now() returns (smallest is 0)
MaxClock == 2

(* --------------------------- string helpers ---------------------------- *)

Min(S) == CHOOSE x \in S : \A y \in S : x <= y
Max(S) == CHOOSE x \in S : \A y \in S : x >= y

\* String.prototype.startsWith at position i (1-based): d occurs in s at i
OccursAt(s, d, i) ==
    /\ i >= 1
    /\ i + Len(d) - 1 <= Len(s)
    /\ SubSeq(s, i, i + Len(d) - 1) = d

\* String.prototype.includes
Includes(s, d) == \E i \in 1..(Len(s) + 1) : OccursAt(s, d, i)

\* String.prototype.split with a non-empty separator: cut at the leftmost
\* occurrence, continue after it; a string without occurrence is one piece
RECURSIVE Split(_, _)
Split(s, d) ==
    LET hits == {i \in 1..Len(s) : OccursAt(s, d, i)}
    IN  IF hits = {}
        THEN <<s>>
        ELSE LET i == Min(hits)
             IN  <<SubSeq(s, 1, i - 1)>> \o Split(SubSeq(s, i + Len(d), Len(s)), d)

\* the white space and line terminators of the model's alphabet
WhiteSpace == {" ", "\n", "\t"}

\* a trim that forgets the trailing white space
TrimLeft(s) ==
    LET ink == {i \in 1..Len(s) : s[i] \notin WhiteSpace}
    IN  IF ink = {} THEN <<>> ELSE SubSeq(s, Min(ink), Len(s))

\* String.prototype.trim
Trim(s) ==
    LET ink == {i \in 1..Len(s) : s[i] \notin WhiteSpace}
    IN  IF ink = {} THEN <<>> ELSE SubSeq(s, Min(ink), Max(ink))

\* Array.prototype.map
RECURSIVE MapTrim(_)
MapTrim(ss) ==
    IF ss = <<>> THEN <<>> ELSE <<Trim(Head(ss))>> \o MapTrim(Tail(ss))

\* Array.prototype.filter(Boolean) on strings: the empty string is falsy
NonEmpty(s) == Len(s) > 0
FilterBoolean(ss) == SelectSeq(ss, NonEmpty)

\* Array.prototype.join
RECURSIVE Join(_, _)
Join(ss, sep) ==
    IF ss = <<>> THEN <<>>
    ELSE IF Len(ss) = 1 THEN ss[1]
    ELSE ss[1] \o sep \o Join(Tail(ss), sep)

\* Number to string, base 10, as a template literal or + prints it
Digits == <<"0", "1", "2", "3", "4", "5", "6", "7", "8", "9">>
RECURSIVE Dec(_)
Dec(n) ==
    IF n < 10 THEN <<Digits[n + 1]>>
    ELSE Dec(n \div 10) \o <<Digits[(n % 10) + 1]>>

(* ------------------------------ segmenter ------------------------------ *)

Delimiter == <<"-", "-", "-">>

\* markdownText.split('---').map(s => s.trim()).filter(Boolean)
SlidesContent(markdownText) ==
    FilterBoolean(MapTrim(Split(markdownText, Delimiter)))

(* ------------------- markdownit.parse (collaborator) ------------------- *)

\* The token stream markdown-it produces for a fragment whose blocks are
\* separated by blank lines and are each one line: an ATX heading ("#" or
\* "# text"), a bullet item ("- text") or plain text.  Every fragment the
\* conversion specifications feed in has this form.
Tok(type, content) == [type |-> type, content |-> content]

BlankLine == <<"\n", "\n">>
IsHeading(b) == b = <<"#">> \/ OccursAt(b, <<"#", " ">>, 1)
IsListItem(b) == OccursAt(b, <<"-", " ">>, 1)
BlockText(b) == Trim(SubSeq(b, 2, Len(b)))

RECURSIVE BlockTokens(_, _)
BlockTokens(blocks, inList) ==
    LET close == IF inList THEN <<Tok("bullet_list_close", <<>>)>> ELSE <<>>
        open  == IF inList THEN <<>> ELSE <<Tok("bullet_list_open", <<>>)>>
    IN  IF blocks = <<>> THEN close
        ELSE LET b == Head(blocks)
             IN  IF IsListItem(b)
                 THEN open \o << Tok("list_item_open", <<>>),
                                 Tok("paragraph_open", <<>>),
                                 Tok("inline", BlockText(b)),
                                 Tok("paragraph_close", <<>>),
                                 Tok("list_item_close", <<>>) >>
                           \o BlockTokens(Tail(blocks), TRUE)
                 ELSE IF IsHeading(b)
                 THEN close \o << Tok("heading_open", <<>>),
                                  Tok("inline", BlockText(b)),
                                  Tok("heading_close", <<>>) >>
                            \o BlockTokens(Tail(blocks), FALSE)
                 ELSE close \o << Tok("paragraph_open", <<>>),
                                  Tok("inline", Trim(b)),
                                  Tok("paragraph_close", <<>>) >>
                            \o BlockTokens(Tail(blocks), FALSE)

Parse(slideMd) == BlockTokens(Split(slideMd, BlankLine), FALSE)

(* ------------------------------ token scan ----------------------------- *)

\* the two characters of the literal prefix: U+2022 (BULLET), then a space
Bullet == <<"U+2022", " ">>

\* the for loop over tokens; i is the loop index (1-based here)
RECURSIVE ScanFrom(_, _, _, _)
ScanFrom(tokens, i, slideTitle, slideBodyElements) ==
    IF i > Len(tokens)
    THEN [slideTitle |-> slideTitle, slideBodyElements |-> slideBodyElements]
    ELSE LET token == tokens[i]
             nextIsInline == i + 1 <= Len(tokens) /\ tokens[i + 1].type = "inline"
         IN  IF token.type = "heading_open"
             THEN IF nextIsInline
                  THEN ScanFrom(tokens, i + 2, tokens[i + 1].content, slideBodyElements)
                  ELSE ScanFrom(tokens, i + 1, slideTitle, slideBodyElements)
             ELSE IF token.type \in {"paragraph_open", "list_item_open"}
             THEN IF nextIsInline
                  THEN LET content == IF token.type = "list_item_open"
                                      THEN Bullet \o tokens[i + 1].content
                                      ELSE tokens[i + 1].content
                       IN  ScanFrom(tokens, i + 2, slideTitle,
                                    Append(slideBodyElements, content))
                  ELSE ScanFrom(tokens, i + 1, slideTitle, slideBodyElements)
             ELSE ScanFrom(tokens, i + 1, slideTitle, slideBodyElements)

Scan(tokens) == ScanFrom(tokens, 1, <<>>, <<>>)

(* --------------------------- request builder --------------------------- *)

\* a slide id made of the clock value alone
SlideObjectIdNoIndex(now, index) ==
    <<"s", "l", "i", "d", "e", "_">> \o Dec(now)

\* `slide_${Date.now()}_${slideCount}`
SlideObjectId(now, index) ==
    <<"s", "l", "i", "d", "e", "_">> \o Dec(now) \o <<"_">> \o Dec(index)

\* `title_shape_${Date.now()}_${slideCount}`
TitleShapeObjectId(now, index) ==
    <<"t", "i", "t", "l", "e", "_", "s", "h", "a", "p", "e", "_">>
        \o Dec(now) \o <<"_">> \o Dec(index)

\* `body_shape_${Date.now()}_${slideCount}`
BodyShapeObjectId(now, index) ==
    <<"b", "o", "d", "y", "_", "s", "h", "a", "p", "e", "_">>
        \o Dec(now) \o <<"_">> \o Dec(index)

\* slideTitle || 'Slide ' + (slideCount + 1)
TitleText(slideTitle, index) ==
    IF NonEmpty(slideTitle) THEN slideTitle
    ELSE <<"S", "l", "i", "d", "e", " ">> \o Dec(index + 1)

\* slideBodyElements.join('\n\n')
BodyText(slideBodyElements) == Join(slideBodyElements, BlankLine)

CreateSlide(objectId, insertionIndex) ==
    [kind |-> "createSlide", objectId |-> objectId,
     insertionIndex |-> insertionIndex, predefinedLayout |-> "TITLE_AND_BODY"]

CreateShape(objectId, pageObjectId, translateY, height) ==
    [kind |-> "createShape", objectId |-> objectId, shapeType |-> "TEXT_BOX",
     pageObjectId |-> pageObjectId, scaleX |-> 1, scaleY |-> 1,
     translateX |-> 50, translateY |-> translateY,
     width |-> 600, height |-> height, unit |-> "PT"]

InsertText(objectId, text) ==
    [kind |-> "insertText", objectId |-> objectId, text |-> text]

UpdateTextStyle(objectId, style, fields) ==
    [kind |-> "updateTextStyle", objectId |-> objectId, textRange |-> "ALL",
     style |-> style, fields |-> fields]

\* a builder that leaves the body group out when there is no body line
SlideRequestsPartial(slideMd, index, t1, t2, t3) ==
    LET scanned            == Scan(Parse(slideMd))
        slideObjectId      == SlideObjectId(t1, index)
        titleShapeObjectId == TitleShapeObjectId(t2, index)
        bodyShapeObjectId  == BodyShapeObjectId(t3, index)
    IN  << CreateSlide(slideObjectId, index),
           CreateShape(titleShapeObjectId, slideObjectId, 50, 50),
           InsertText(titleShapeObjectId, TitleText(scanned.slideTitle, index)),
           UpdateTextStyle(titleShapeObjectId, [fontSize |-> 24, bold |-> TRUE],
                           "fontSize,bold") >>
        \o (IF scanned.slideBodyElements = <<>> THEN <<>>
            ELSE << CreateShape(bodyShapeObjectId, slideObjectId, 120, 350),
                    InsertText(bodyShapeObjectId, BodyText(scanned.slideBodyElements)),
                    UpdateTextStyle(bodyShapeObjectId, [fontSize |-> 14], "fontSize") >>)

\* the seven requests.push of one iteration of the loop over slidesContent,
\* where slideCount = index;
\* t1, t2, t3 are the three values Date.now() returns in it
SlideRequests(slideMd, index, t1, t2, t3) ==
    LET scanned            == Scan(Parse(slideMd))
        slideObjectId      == SlideObjectId(t1, index)
        titleShapeObjectId == TitleShapeObjectId(t2, index)
        bodyShapeObjectId  == BodyShapeObjectId(t3, index)
    IN  << CreateSlide(slideObjectId, index),
           CreateShape(titleShapeObjectId, slideObjectId, 50, 50),
           InsertText(titleShapeObjectId, TitleText(scanned.slideTitle, index)),
           UpdateTextStyle(titleShapeObjectId, [fontSize |-> 24, bold |-> TRUE],
                           "fontSize,bold"),
           CreateShape(bodyShapeObjectId, slideObjectId, 120, 350),
           InsertText(bodyShapeObjectId, BodyText(scanned.slideBodyElements)),
           UpdateTextStyle(bodyShapeObjectId, [fontSize |-> 14], "fontSize") >>

(* ------------------------------- inputs -------------------------------- *)

\* the requests in flight: two conversions and two auth callbacks
Conv == {"r1", "r2"}
Cb == {"c1", "c2"}

Undefined == "undefined"

\* a check that takes a missing token for a token
TruthyNonEmpty(v) == v # ""

\* a value as an if-condition sees it (access tokens are opaque strings)
Truthy(v) == v # Undefined /\ v # ""

\* the authorization codes of two users; a callback may also carry no code
Users == {"u1", "u2"}
Codes == {"code_" \o u : u \in Users} \cup {Undefined}
TokensOf(code) ==
    [access_token |-> "at_" \o code, refresh_token |-> "rt_" \o code]

\* req.body as express.urlencoded leaves it: a form with or without the field
Form(markdownText) == [markdownText |-> markdownText]
FormWithoutText == [other |-> <<"x">>]

\* the one-line blocks documents are made of
Lines == { <<"#", " ", "a">>, <<"#", " ", "b">>, <<"c">>, <<"-", " ", "d">>,
           Delimiter }
SeqsUpTo(S, n) == UNION {[1..k -> S] : k \in 0..n}
Docs == {Join(ls, BlankLine) : ls \in SeqsUpTo(Lines, MaxBlocks)}

\* documents over a four-character alphabet, for the segmenter
Alphabet == {"-", " ", "\n", "a"}
CharDocs == SeqsUpTo(Alphabet, MaxDocLen)

\* a few documents for the specification of concurrent requests
FewDocs == { <<>>,
             Delimiter,
             Join(<< <<"#", " ", "a">>, <<"c">> >>, BlankLine),
             Join(<< <<"c">>, Delimiter, <<"-", " ", "d">> >>, BlankLine) }

\* the values Date.now() returns; the earliest and the latest of them
Clock == 0..MaxClock
Ticks == {0, MaxClock}

\* the errors a Slides API call rejects with: a code, with or without message
LayoutNotFound ==
    <<"L", "A", "Y", "O", "U", "T", "_", "N", "O", "T", "_",
      "F", "O", "U", "N", "D">>
Messages == { <<"b", "a", "d", ":", " ">> \o LayoutNotFound, <<"b", "o", "o", "m">> }
ErrorCodes == {400, 401, 500}
Errors == {[code |-> c, message |-> m] : c \in ErrorCodes, m \in Messages}
              \cup {[code |-> c] : c \in ErrorCodes}

(* ----------------------------- HTTP replies ---------------------------- *)

Response(status, what, detail) ==
    [status |-> status, what |-> what, detail |-> detail]

\* `https://docs.google.com/presentation/d/${presentationId}/edit`
PresentationUrl(id) ==
    <<"h", "t", "t", "p", "s", ":", "/", "/", "d", "o", "c", "s", ".",
      "g", "o", "o", "g", "l", "e", ".", "c", "o", "m", "/",
      "p", "r", "e", "s", "e", "n", "t", "a", "t", "i", "o", "n", "/", "d", "/">>
        \o id \o <<"/", "e", "d", "i", "t">>

\* the presentationId the Slides service gives its n-th presentation
ServiceId(n) == <<"p">> \o Dec(n)

\* a Slides API call as the service receives it
Call(api, auth, id, batch, settled) ==
    [api |-> api, auth |-> auth, presentationId |-> id, requests |-> batch,
     settled |-> settled]

\* the catch block of POST /convert: error.message.includes(...) throws a
\* TypeError when the error has code 400 and no message
CatchThrows(error) == error.code = 400 /\ "message" \notin DOMAIN error

CatchResponse(error) ==
    IF error.code = 400 /\ Includes(error.message, LayoutNotFound)
    THEN Response(500, "send: layout unavailable", <<>>)
    ELSE IF error.code = 401
    THEN Response(401, "send: credentials expired", <<>>)
    ELSE Response(500, "send: unexpected error",
                  IF "message" \in DOMAIN error /\ NonEmpty(error.message)
                  THEN error.message ELSE <<"[", "e", "r", "r", "o", "r", "]">>)

(* -------------------------------- state -------------------------------- *)

Init ==
    /\ credentials = [access_token |-> Undefined, refresh_token |-> Undefined]
    /\ created = 0
    /\ pc = [r \in Conv |-> "idle"]
    /\ body = [r \in Conv |-> FormWithoutText]
    /\ slidesContent = [r \in Conv |-> <<>>]
    /\ presentationId = [r \in Conv |-> <<>>]
    /\ requests = [r \in Conv |-> <<>>]
    /\ slideCount = [r \in Conv |-> 0]
    /\ calls = [r \in Conv |-> <<>>]
    /\ responses = [r \in Conv |-> <<>>]
    /\ cbPc = [c \in Cb |-> "idle"]
    /\ cbCode = [c \in Cb |-> Undefined]
    /\ cbResponses = [c \in Cb |-> <<>>]

\* JavaScript runs a handler to its next await: while one request is in the
\* loop over slidesContent no other request takes a step
NoneBuilding == \A q \in Conv : pc[q] # "building"

(* ---------------------- GET /auth/google/callback ---------------------- *)

\* the request arrives and oauth2Client.getToken(code) is issued
CallbackReceive(c, code) ==
    /\ NoneBuilding
    /\ cbPc[c] = "idle"
    /\ cbPc' = [cbPc EXCEPT ![c] = "exchanging"]
    /\ cbCode' = [cbCode EXCEPT ![c] = code]
    /\ UNCHANGED <<credentials, created, convVars, cbResponses>>

\* getToken resolves: setCredentials(tokens), res.redirect('/')
ExchangeResolve(c) ==
    /\ NoneBuilding
    /\ cbPc[c] = "exchanging"
    /\ cbCode[c] # Undefined
    /\ credentials' = TokensOf(cbCode[c])
    /\ cbResponses' = [cbResponses EXCEPT
                          ![c] = Append(@, Response(302, "redirect", <<"/">>))]
    /\ cbPc' = [cbPc EXCEPT ![c] = "done"]
    /\ UNCHANGED <<created, convVars, cbCode>>

\* a failed exchange that also empties the slot
ExchangeRejectClears(c) ==
    /\ NoneBuilding
    /\ cbPc[c] = "exchanging"
    /\ credentials' = [access_token |-> Undefined, refresh_token |-> Undefined]
    /\ cbResponses' = [cbResponses EXCEPT
                          ![c] = Append(@, Response(500, "send: auth failed", <<>>))]
    /\ cbPc' = [cbPc EXCEPT ![c] = "done"]
    /\ UNCHANGED <<created, convVars, cbCode>>

\* getToken throws: res.status(500).send(...)
ExchangeReject(c) ==
    /\ NoneBuilding
    /\ cbPc[c] = "exchanging"
    /\ cbResponses' = [cbResponses EXCEPT
                          ![c] = Append(@, Response(500, "send: auth failed", <<>>))]
    /\ cbPc' = [cbPc EXCEPT ![c] = "done"]
    /\ UNCHANGED <<credentials, created, convVars, cbCode>>

(* ----------------------------- POST /convert --------------------------- *)

\* the handler up to its first await: the credential check, the split (which
\* throws outside the try block when the form has no markdownText) and the
\* call of presentations.create
ConvertReceive(r, form) ==
    /\ NoneBuilding
    /\ pc[r] = "idle"
    /\ body' = [body EXCEPT ![r] = form]
    /\ IF ~Truthy(credentials.access_token)
       THEN /\ responses' = [responses EXCEPT
                                ![r] = Append(@, Response(401, "send: login first", <<>>))]
            /\ pc' = [pc EXCEPT ![r] = "done"]
            /\ UNCHANGED <<slidesContent, calls>>
       ELSE IF "markdownText" \notin DOMAIN form
       THEN /\ pc' = [pc EXCEPT ![r] = "rejected"]
            /\ UNCHANGED <<slidesContent, calls, responses>>
       ELSE /\ slidesContent' = [slidesContent EXCEPT
                                    ![r] = SlidesContent(form.markdownText)]
            /\ calls' = [calls EXCEPT
                            ![r] = Append(@, Call("create", credentials.access_token,
                                                  <<>>, <<>>, "pending"))]
            /\ pc' = [pc EXCEPT ![r] = "creating"]
            /\ UNCHANGED responses
    /\ UNCHANGED <<credentials, created, presentationId, requests, slideCount, cbVars>>

\* the call last issued by r settles
Settle(log, how, id) ==
    LET call == log[Len(log)]
    IN  [log EXCEPT ![Len(log)] =
            Call(call.api, call.auth,
                 IF call.api = "create" THEN id ELSE call.presentationId,
                 call.requests, how)]

\* presentations.create resolves: presentationId, requests = [], slideCount = 0
CreateResolve(r) ==
    /\ NoneBuilding
    /\ pc[r] = "creating"
    /\ created' = created + 1
    /\ calls' = [calls EXCEPT ![r] = Settle(@, "resolved", ServiceId(created + 1))]
    /\ presentationId' = [presentationId EXCEPT ![r] = ServiceId(created + 1)]
    /\ requests' = [requests EXCEPT ![r] = <<>>]
    /\ slideCount' = [slideCount EXCEPT ![r] = 0]
    /\ pc' = [pc EXCEPT ![r] = "building"]
    /\ UNCHANGED <<credentials, body, slidesContent, responses, cbVars>>

\* the catch block, entered with error
Catch(r, error) ==
    /\ IF CatchThrows(error)
       THEN /\ pc' = [pc EXCEPT ![r] = "rejected"]
            /\ UNCHANGED responses
       ELSE /\ pc' = [pc EXCEPT ![r] = "done"]
            /\ responses' = [responses EXCEPT ![r] = Append(@, CatchResponse(error))]

\* presentations.create rejects
CreateReject(r, error) ==
    /\ NoneBuilding
    /\ pc[r] = "creating"
    /\ calls' = [calls EXCEPT ![r] = Settle(@, "rejected", <<>>)]
    /\ Catch(r, error)
    /\ UNCHANGED <<credentials, created, body, slidesContent, presentationId,
                   requests, slideCount, cbVars>>

\* one iteration of the loop over slidesContent
BuildSlide(r, t1, t2, t3) ==
    /\ pc[r] = "building"
    /\ slideCount[r] < Len(slidesContent[r])
    /\ requests' = [requests EXCEPT
                       ![r] = @ \o SlideRequests(slidesContent[r][slideCount[r] + 1],
                                                 slideCount[r], t1, t2, t3)]
    /\ slideCount' = [slideCount EXCEPT ![r] = @ + 1]
    /\ UNCHANGED <<credentials, created, pc, body, slidesContent, presentationId,
                   calls, responses, cbVars>>

SuccessView(id) == Response(200, "render: success", PresentationUrl(id))

\* a submission authorised with the credential the create call went out with
SubmitWithCheckedCredential(r) ==
    /\ pc[r] = "building"
    /\ slideCount[r] = Len(slidesContent[r])
    /\ IF Len(requests[r]) > 0
       THEN /\ calls' = [calls EXCEPT
                            ![r] = Append(@, Call("batchUpdate", calls[r][1].auth,
                                                  presentationId[r], requests[r],
                                                  "pending"))]
            /\ pc' = [pc EXCEPT ![r] = "updating"]
            /\ UNCHANGED responses
       ELSE /\ responses' = [responses EXCEPT
                                ![r] = Append(@, SuccessView(presentationId[r]))]
            /\ pc' = [pc EXCEPT ![r] = "done"]
            /\ UNCHANGED calls
    /\ UNCHANGED <<credentials, created, body, slidesContent, presentationId,
                   requests, slideCount, cbVars>>

\* after the loop: batchUpdate when there are requests, else the success view
Submit(r) ==
    /\ pc[r] = "building"
    /\ slideCount[r] = Len(slidesContent[r])
    /\ IF Len(requests[r]) > 0
       THEN /\ calls' = [calls EXCEPT
                            ![r] = Append(@, Call("batchUpdate", credentials.access_token,
                                                  presentationId[r], requests[r],
                                                  "pending"))]
            /\ pc' = [pc EXCEPT ![r] = "updating"]
            /\ UNCHANGED responses
       ELSE /\ responses' = [responses EXCEPT
                                ![r] = Append(@, SuccessView(presentationId[r]))]
            /\ pc' = [pc EXCEPT ![r] = "done"]
            /\ UNCHANGED calls
    /\ UNCHANGED <<credentials, created, body, slidesContent, presentationId,
                   requests, slideCount, cbVars>>

\* presentations.batchUpdate resolves: res.render('success', ...)
UpdateResolve(r) ==
    /\ NoneBuilding
    /\ pc[r] = "updating"
    /\ calls' = [calls EXCEPT ![r] = Settle(@, "resolved", <<>>)]
    /\ responses' = [responses EXCEPT ![r] = Append(@, SuccessView(presentationId[r]))]
    /\ pc' = [pc EXCEPT ![r] = "done"]
    /\ UNCHANGED <<credentials, created, body, slidesContent, presentationId,
                   requests, slideCount, cbVars>>

\* a failed batchUpdate that is swallowed: the success view is rendered
UpdateRejectSwallowed(r, error) ==
    /\ NoneBuilding
    /\ pc[r] = "updating"
    /\ calls' = [calls EXCEPT ![r] = Settle(@, "rejected", <<>>)]
    /\ responses' = [responses EXCEPT ![r] = Append(@, SuccessView(presentationId[r]))]
    /\ pc' = [pc EXCEPT ![r] = "done"]
    /\ UNCHANGED <<credentials, created, body, slidesContent, presentationId,
                   requests, slideCount, cbVars>>

\* presentations.batchUpdate rejects
UpdateReject(r, error) ==
    /\ NoneBuilding
    /\ pc[r] = "updating"
    /\ calls' = [calls EXCEPT ![r] = Settle(@, "rejected", <<>>)]
    /\ Catch(r, error)
    /\ UNCHANGED <<credentials, created, body, slidesContent, presentationId,
                   requests, slideCount, cbVars>>

(* ---------------------------- specifications --------------------------- *)

\* a request that has not arrived yet; one that is in the loop
Idle(r) == pc[r] = "idle"
Building(r) == pc[r] = "building"

\* concurrent requests: two conversions, two callbacks
Next ==
    \/ \E c \in Cb, code \in Codes : CallbackReceive(c, code)
    \/ \E c \in Cb : ExchangeResolve(c)
    \/ \E c \in Cb : ExchangeReject(c)
    \/ \E r \in Conv : Idle(r) /\ \E d \in FewDocs : ConvertReceive(r, Form(d))
    \/ \E r \in Conv : ConvertReceive(r, FormWithoutText)
    \/ \E r \in Conv : CreateResolve(r)
    \/ \E r \in Conv, e \in Errors : CreateReject(r, e)
    \/ \E r \in Conv : BuildSlide(r, 0, 0, 0)
    \/ \E r \in Conv : Submit(r)
    \/ \E r \in Conv : UpdateResolve(r)
    \/ \E r \in Conv, e \in Errors : UpdateReject(r, e)

Spec == Init /\ [][Next]_vars

\* one conversion of any document, after one callback; the clock may tick
\* between any two reads
NextBuild ==
    \/ \E code \in Codes : CallbackReceive("c1", code)
    \/ ExchangeResolve("c1")
    \/ ExchangeReject("c1")
    \/ Idle("r1") /\ \E d \in Docs : ConvertReceive("r1", Form(d))
    \/ CreateResolve("r1")
    \/ Building("r1") /\ \E t1, t2, t3 \in Ticks : BuildSlide("r1", t1, t2, t3)
    \/ Submit("r1")
    \/ UpdateResolve("r1")

SpecBuild == Init /\ [][NextBuild]_vars

\* one conversion, every read of the clock returning any value
NextIds ==
    \/ \E code \in Codes : CallbackReceive("c1", code)
    \/ ExchangeResolve("c1")
    \/ ExchangeReject("c1")
    \/ Idle("r1") /\ \E d \in FewDocs : ConvertReceive("r1", Form(d))
    \/ CreateResolve("r1")
    \/ Building("r1") /\ \E t1, t2, t3 \in Clock : BuildSlide("r1", t1, t2, t3)
    \/ Submit("r1")
    \/ UpdateResolve("r1")

SpecIds == Init /\ [][NextIds]_vars

\* the segmenter on any document of the alphabet, after one callback
NextSegment ==
    \/ \E code \in Codes : CallbackReceive("c1", code)
    \/ ExchangeResolve("c1")
    \/ ExchangeReject("c1")
    \/ Idle("r1") /\ \E d \in CharDocs : ConvertReceive("r1", Form(d))

SpecSegment == Init /\ [][NextSegment]_vars

(* ------------------------------- claims -------------------------------- *)

LoginFirst == Response(401, "send: login first", <<>>)
IsSuccess(resp) == resp.what = "render: success"
HasSuccess(r) == \E i \in 1..Len(responses[r]) : IsSuccess(responses[r][i])
CallsOf(r, api) == {i \in 1..Len(calls[r]) : calls[r][i].api = api}

\* C1: a POST /convert that arrives while the slot holds no access token is
\* answered with 401 and issues no Slides API call, then or later
C1_UnauthenticatedIs401 ==
    [][\A r \in Conv :
          /\ (pc[r] = "idle" /\ pc'[r] # "idle"
                  /\ credentials.access_token = Undefined)
                => /\ responses'[r] = <<LoginFirst>>
                   /\ calls'[r] = <<>>
                   /\ pc'[r] = "done"
          /\ (pc[r] = "done" /\ responses[r] = <<LoginFirst>>)
                => /\ calls'[r] = <<>>
                   /\ responses'[r] = responses[r]]_vars

\* a conversion was refused with 401 after a callback had failed
C1_Witness ==
    \E r \in Conv, c \in Cb :
        /\ responses[r] = <<LoginFirst>>
        /\ calls[r] = <<>>
        /\ cbPc[c] = "done"
        /\ cbResponses[c][1].status = 500
        /\ credentials.access_token = Undefined

\* the positions of a batch that create an object
Creations(batch) ==
    {i \in 1..Len(batch) : batch[i].kind \in {"createSlide", "createShape"}}

\* C2: within one batch every object identifier is unique, whatever the
\* clock returns
C2_IdsUnique ==
    \A r \in Conv :
        \A i, j \in Creations(requests[r]) :
            i # j => requests[r][i].objectId # requests[r][j].objectId

\* two fragments built with the same clock value at every read
C2_Witness ==
    /\ Len(requests["r1"]) = 14
    /\ requests["r1"][1].objectId = SlideObjectId(0, 0)
    /\ requests["r1"][2].objectId = TitleShapeObjectId(0, 0)
    /\ requests["r1"][5].objectId = BodyShapeObjectId(0, 0)
    /\ requests["r1"][8].objectId = SlideObjectId(0, 1)
    /\ requests["r1"][9].objectId = TitleShapeObjectId(0, 1)
    /\ requests["r1"][12].objectId = BodyShapeObjectId(0, 1)

IsPrefix(a, b) == Len(a) <= Len(b) /\ SubSeq(b, 1, Len(a)) = a

\* positions 7k+1..7k+7 of batch are the group of fragment k (0-based)
GroupOk(batch, k, slideMd) ==
    LET op(i)   == batch[7 * k + i]
        scanned == Scan(Parse(slideMd))
    IN  /\ op(1).kind = "createSlide"
        /\ op(1).insertionIndex = k
        /\ op(2).kind = "createShape"
        /\ op(2).pageObjectId = op(1).objectId
        /\ op(2).translateY = 50
        /\ op(3).kind = "insertText"
        /\ op(3).objectId = op(2).objectId
        /\ op(3).text = TitleText(scanned.slideTitle, k)
        /\ op(4).kind = "updateTextStyle"
        /\ op(4).objectId = op(2).objectId
        /\ op(4).style = [fontSize |-> 24, bold |-> TRUE]
        /\ op(5).kind = "createShape"
        /\ op(5).pageObjectId = op(1).objectId
        /\ op(5).translateY = 120
        /\ op(6).kind = "insertText"
        /\ op(6).objectId = op(5).objectId
        /\ op(6).text = BodyText(scanned.slideBodyElements)
        /\ op(7).kind = "updateTextStyle"
        /\ op(7).objectId = op(5).objectId
        /\ op(7).style = [fontSize |-> 14]

BatchOk(r) ==
    /\ Len(requests[r]) = 7 * slideCount[r]
    /\ slideCount[r] <= Len(slidesContent[r])
    /\ \A k \in 0..(slideCount[r] - 1) :
           GroupOk(requests[r], k, slidesContent[r][k + 1])
    /\ \A i \in CallsOf(r, "batchUpdate") :
           /\ calls[r][i].requests = requests[r]
           /\ Len(calls[r][i].requests) = 7 * Len(slidesContent[r])

\* C3: the batch holds 7 operations per fragment, in the fixed order, group
\* k built from fragment k at insertionIndex k; it only grows by appending
\* and is submitted with the groups of all N fragments
C3_SevenPerFragment ==
    /\ [](\A r \in Conv : BatchOk(r))
    /\ [][\A r \in Conv : IsPrefix(requests[r], requests'[r])]_vars

\* the batch of a document with two fragments has been submitted
C3_Witness ==
    /\ pc["r1"] = "updating"
    /\ Len(slidesContent["r1"]) = 2
    /\ Len(calls["r1"][2].requests) = 14

\* the leftmost, non-overlapping occurrences of the delimiter in doc
Cuts(doc) ==
    LET occ == {i \in 1..Len(doc) : OccursAt(doc, Delimiter, i)}
    IN  CHOOSE C \in SUBSET occ :
            \A i \in occ : i \in C <=> \A j \in C : j < i => j + Len(Delimiter) <= i

\* the k-th smallest element of a set of numbers
RECURSIVE Nth(_, _)
Nth(S, k) == IF k = 1 THEN Min(S) ELSE Nth(S \ {Min(S)}, k - 1)

\* the piece of doc between the (k-1)-th and the k-th cut
Piece(doc, k) ==
    LET C    == Cuts(doc)
        from == IF k = 1 THEN 1 ELSE Nth(C, k - 1) + Len(Delimiter)
        to   == IF k = Cardinality(C) + 1 THEN Len(doc) ELSE Nth(C, k) - 1
    IN  SubSeq(doc, from, to)

AllWhite(s) == \A i \in 1..Len(s) : s[i] \in WhiteSpace

\* t is p without its leading and trailing white space, and is not empty
IsTrimOf(t, p) ==
    /\ Len(t) > 0
    /\ t[1] \notin WhiteSpace
    /\ t[Len(t)] \notin WhiteSpace
    /\ \E i \in 1..Len(p) :
           /\ OccursAt(p, t, i)
           /\ AllWhite(SubSeq(p, 1, i - 1))
           /\ AllWhite(SubSeq(p, i + Len(t), Len(p)))

Segmented(doc, out) ==
    LET n    == Cardinality(Cuts(doc)) + 1
        kept == {k \in 1..n : ~AllWhite(Piece(doc, k))}
    IN  /\ Len(out) = Cardinality(kept)
        /\ \A j \in 1..Len(out) : IsTrimOf(out[j], Piece(doc, Nth(kept, j)))
        /\ (kept = {}) => out = <<>>

\* C4: the segments are the pieces between consecutive delimiters that are
\* not blank, each trimmed, in order; only delimiters and white space (or
\* nothing) gives no segment
C4_Segmentation ==
    \A r \in Conv :
        pc[r] = "creating" => Segmented(body[r].markdownText, slidesContent[r])

\* a document cut in two pieces: one dropped, one kept and trimmed
C4_Witness ==
    /\ pc["r1"] = "creating"
    /\ Cardinality(Cuts(body["r1"].markdownText)) = 1
    /\ Len(slidesContent["r1"]) = 1
    /\ Len(slidesContent["r1"][1]) < Len(Piece(body["r1"].markdownText, 1))

StartsWithHeading(tokens) ==
    /\ Len(tokens) >= 2
    /\ tokens[1].type = "heading_open"
    /\ tokens[2].type = "inline"

\* C5: a fragment that starts with a heading of text T gets title T,
\* whatever follows, and T is not a body line
C5_FirstHeadingIsTitle ==
    \A r \in Conv : \A k \in 0..(slideCount[r] - 1) :
        LET tokens == Parse(slidesContent[r][k + 1])
        IN  StartsWithHeading(tokens)
                => /\ requests[r][7 * k + 3].text = tokens[2].content
                   /\ ~Includes(requests[r][7 * k + 6].text, tokens[2].content)

\* the body lines the blocks of a fragment should give
RECURSIVE ExpectedLines(_)
ExpectedLines(blocks) ==
    IF blocks = <<>> THEN <<>>
    ELSE LET b == Head(blocks)
         IN  (IF IsListItem(b) THEN << Bullet \o BlockText(b) >>
              ELSE IF IsHeading(b) THEN <<>>
              ELSE << Trim(b) >>)
             \o ExpectedLines(Tail(blocks))

\* C6: a fragment with K paragraph / list-item blocks gets K body lines in
\* order, those of list items starting with the bullet, joined by a blank
\* line
C6_BodyLines ==
    \A r \in Conv : \A k \in 0..(slideCount[r] - 1) :
        requests[r][7 * k + 6].text =
            Join(ExpectedLines(Split(slidesContent[r][k + 1], BlankLine)), BlankLine)

Redirect == Response(302, "redirect", <<"/">>)

\* C7: a callback whose exchange throws is answered 500 and leaves the slot
\* as it was; only a callback whose exchange succeeded writes the slot, and
\* it redirects to /
C7_FailedExchangeKeepsSlot ==
    [][/\ \A c \in Cb :
             (cbPc[c] = "exchanging" /\ cbPc'[c] = "done")
                 => \/ /\ cbResponses'[c] = <<Response(500, "send: auth failed", <<>>)>>
                       /\ credentials' = credentials
                    \/ /\ cbResponses'[c] = <<Redirect>>
                       /\ credentials' = TokensOf(cbCode[c])
       /\ credentials' # credentials
             => \E c \in Cb : /\ cbPc[c] = "exchanging"
                              /\ cbPc'[c] = "done"
                              /\ cbResponses'[c] = <<Redirect>>]_vars

\* one callback failed, another stored its credential
C7_Witness ==
    \E c, d \in Cb :
        /\ cbResponses[c] = <<Response(500, "send: auth failed", <<>>)>>
        /\ cbResponses[d] = <<Redirect>>
        /\ credentials = TokensOf(cbCode[d])

\* C8: every conversion request the handler is through with has exactly one
\* response
C8_OneResponse ==
    \A r \in Conv : pc[r] \in {"done", "rejected"} => Len(responses[r]) = 1

\* C9: a Slides API call is authorised with what the slot holds when it is
\* issued, not with what it held at the credential check; a step changes the
\* batch and slide counter of its own request only
C9_SharedSlotRace ==
    [][\A r \in Conv :
          /\ Len(calls'[r]) > Len(calls[r])
                => calls'[r][Len(calls'[r])].auth = credentials.access_token
          /\ (requests'[r] # requests[r] \/ slideCount'[r] # slideCount[r])
                => /\ pc[r] \in {"creating", "building"}
                   /\ \A q \in Conv \ {r} :
                          /\ requests'[q] = requests[q]
                          /\ slideCount'[q] = slideCount[q]
                          /\ pc'[q] = pc[q]]_vars

\* one conversion's create and batchUpdate ran under different credentials
C9_Witness ==
    \E r \in Conv :
        /\ Len(calls[r]) = 2
        /\ calls[r][1].auth # calls[r][2].auth
        /\ calls[r][2].settled = "resolved"
        /\ HasSuccess(r)

\* C10 as claimed: every conversion that renders the success view has issued
\* exactly one batchUpdate
C10_AlwaysOneBatchUpdate ==
    \A r \in Conv : HasSuccess(r) => Cardinality(CallsOf(r, "batchUpdate")) = 1

\* C10 amended: one create first; then one batchUpdate of the whole batch to
\* the id that create returned, or none when there is no fragment; the
\* success view with that id's URL only after what was issued resolved
C10_CallOrder ==
    \A r \in Conv :
        LET log == calls[r]
            N   == Len(slidesContent[r])
        IN  /\ Len(log) <= 2
            /\ (pc[r] # "idle" /\ "markdownText" \in DOMAIN body[r]
                    /\ responses[r] # <<LoginFirst>>) => Len(log) >= 1
            /\ Len(log) >= 1 => log[1].api = "create"
            /\ Len(log) = 2 =>
                   /\ log[1].settled = "resolved"
                   /\ log[2].api = "batchUpdate"
                   /\ log[2].presentationId = log[1].presentationId
                   /\ log[2].requests = requests[r]
                   /\ Len(log[2].requests) = 7 * N
                   /\ N > 0
            /\ HasSuccess(r) =>
                   /\ responses[r] = <<SuccessView(log[1].presentationId)>>
                   /\ \A i \in 1..Len(log) : log[i].settled = "resolved"
                   /\ Len(log) = IF N > 0 THEN 2 ELSE 1
            /\ (\E i \in 1..Len(log) : log[i].settled = "rejected") =>
                   /\ ~HasSuccess(r)
                   /\ log[Len(log)].settled = "rejected"

\* a conversion of two fragments rendered the success view
C10_Witness ==
    \E r \in Conv :
        /\ HasSuccess(r)
        /\ Len(slidesContent[r]) = 2
        /\ Len(calls[r]) = 2

====
